---- MODULE Spec2Model ----
(***************************************************************************)
(* Model of main.py: a FastAPI service with one endpoint, POST /chat,      *)
(* whose handler strips the message, rejects an empty one with 400, calls  *)
(* the generation backend once, and maps a raised exception to 500.        *)
(*                                                                         *)
(* Text is a sequence of one-character strings; a fixed literal of the     *)
(* source is a one-element sequence holding the literal, so that string    *)
(* concatenation is sequence concatenation.                                *)
(***************************************************************************)
EXTENDS Integers, Sequences, FiniteSets, TLC

\* ---------------------------------------------------------------- bounds
MaxLen == 2          \* longest message a client submits
MaxRequests == 2     \* number of requests sent to the service in one run

\* ------------------------------------------------------------ text model
Space == " "
Chars == {Space, "a"}

RECURSIVE SeqsUpTo(_)
SeqsUpTo(n) ==
    IF n = 0 THEN {<<>>}
    ELSE LET shorter == SeqsUpTo(n - 1)
         IN  shorter \cup {Append(s, c) : s \in {t \in shorter : Len(t) = n - 1}, c \in Chars}

Messages == SeqsUpTo(MaxLen)

IsSpace(c) == c = Space

RECURSIVE LStrip(_)
LStrip(s) ==
    IF s = <<>> THEN s
    ELSE IF IsSpace(Head(s)) THEN LStrip(Tail(s)) ELSE s

RECURSIVE RStrip(_)
RStrip(s) ==
    IF s = <<>> THEN s
    ELSE IF IsSpace(s[Len(s)]) THEN RStrip(SubSeq(s, 1, Len(s) - 1)) ELSE s

\* str.strip() with no argument: drops leading and trailing whitespace
Strip_leading_only(s) == LStrip(s)
Strip(s) == RStrip(LStrip(s))

\* --------------------------------------------------------- request bodies
\* A JSON body either carries the field `message` or lacks it.
Bodies ==
    {[has_message |-> TRUE, message |-> m] : m \in Messages}
        \cup {[has_message |-> FALSE, message |-> <<>>]}

\* MessageRequest: `message: str = Field(...)` is a required field
MessageRequest_optional(body) == TRUE
MessageRequest(body) == body.has_message

\* ------------------------------------------------------------- responses
NoResponse == [status |-> 0, field |-> "none", text |-> <<>>]
HTTPResponse(status, field, text) == [status |-> status, field |-> field, text |-> text]

\* MessageResponse(response=generated_text), sent with 200
MessageResponse(generated_text) == HTTPResponse(200, "response", generated_text)

\* HTTPException(status_code=..., detail=...) as the framework renders it
HTTPException(status_code, detail) == HTTPResponse(status_code, "detail", detail)

\* the framework's answer to a body that fails MessageRequest validation
RequestValidationError == HTTPResponse(422, "detail", <<"Field required">>)

EmptyMessageDetail == <<"The 'message' field cannot be empty.">>

\* f"Error generating response: {str(e)}"
GenerationErrorDetail(e) == <<"Error generating response: ">> \o e.text

\* ---------------------------------------------------------------- backend
\* What lite_llm can be bound to at import time:
\*   "mock"   the LiteLLMMock fallback, generate(prompt) = "Echo: " + prompt
\*   "module" `import lite_llm` succeeded: the module object itself is used
\*            as the instance, and a module without `generate` raises
\*            AttributeError on the call
\*   "picky"  a backend that accepts one-character prompts only and raises
\*            an HTTPException(400) of its own for longer ones
Backends == {"mock", "module", "picky"}

Returned(text) == [ok |-> TRUE, cls |-> "", status |-> 0, text |-> text]
Raised(cls, status, text) == [ok |-> FALSE, cls |-> cls, status |-> status, text |-> text]

Generate(backend, prompt) ==
    CASE backend = "mock"   -> Returned(<<"Echo: ">> \o prompt)
      [] backend = "module" ->
            Raised("AttributeError", 0, <<"module 'lite_llm' has no attribute 'generate'">>)
      [] backend = "picky"  ->
            IF Len(prompt) >= 2
            THEN Raised("HTTPException", 400, <<"400: prompt too long">>)
            ELSE Returned(<<"Echo: ">> \o prompt)

\* `except Exception as e`: the classes the clause catches
ExceptionClasses == {"AttributeError", "HTTPException", "RuntimeError"}
Caught_narrow(e) == e.cls = "AttributeError"
Caught(e) == e.cls \in ExceptionClasses

\* an exception leaving the handler: the framework renders an HTTPException
\* with its own status and anything else as a plain 500
Uncaught(e) ==
    IF e.cls = "HTTPException"
    THEN HTTPException(e.status, e.text)
    ELSE HTTPResponse(500, "text", <<"Internal Server Error">>)

\* ------------------------------------------------------------------ state
Requests == 1..MaxRequests

VARIABLES
    lite_llm,           \* what the name lite_llm is bound to after import
    lite_llm_instance,  \* the module-level adapter instance
    body,               \* body[r]: the JSON body request r carries
    pc,                 \* pc[r]: where request r is
    user_message,       \* user_message[r]: the handler's local of that name
    generated_text,     \* generated_text[r]: the handler's local of that name
    response,           \* response[r]: the HTTP response sent for r
    running,            \* the request whose handler holds the event loop, 0 if idle
    trace,              \* trace[r]: the stages r has gone through (history)
    prompts,            \* prompts[r]: the prompts generate was called with for r (history)
    finished            \* the requests answered so far, in the order answered (history)

vars == <<lite_llm, lite_llm_instance, body, pc, user_message, generated_text,
          response, running, trace, prompts, finished>>

globals == <<lite_llm, lite_llm_instance>>

initialize_lite_llm(module) == module

Init ==
    /\ lite_llm \in Backends
    /\ lite_llm_instance = initialize_lite_llm(lite_llm)
    /\ body = [r \in Requests |-> [has_message |-> FALSE, message |-> <<>>]]
    /\ pc = [r \in Requests |-> "none"]
    /\ user_message = [r \in Requests |-> <<>>]
    /\ generated_text = [r \in Requests |-> <<>>]
    /\ response = [r \in Requests |-> NoResponse]
    /\ running = 0
    /\ trace = [r \in Requests |-> <<>>]
    /\ prompts = [r \in Requests |-> <<>>]
    /\ finished = <<>>

\* `not user_message`: a str is falsy exactly when it is empty
Falsy_never(s) == FALSE
Falsy(s) == s = <<>>

\* the argument of lite_llm_instance.generate(user_message)
Prompt_raw(r) == body[r].message
Prompt_history(r) ==
    IF finished = <<>> THEN user_message[r]
    ELSE user_message[finished[Len(finished)]] \o user_message[r]
Prompt(r) == user_message[r]

\* A client posts a body to /chat; requests are numbered in the order sent.
Send(r, b) ==
    /\ pc[r] = "none"
    /\ \A q \in Requests : q < r => pc[q] # "none"
    /\ body' = [body EXCEPT ![r] = b]
    /\ pc' = [pc EXCEPT ![r] = "pending"]
    /\ UNCHANGED <<globals, user_message, generated_text, response, running, trace, prompts,
                   finished>>

\* The framework, on the event loop, validates the body against
\* MessageRequest and calls chat_endpoint, or answers 422 itself.
Dispatch(r) ==
    /\ pc[r] = "pending"
    /\ running = 0
    /\ IF MessageRequest(body[r])
       THEN /\ pc' = [pc EXCEPT ![r] = "received"]
            /\ running' = r
            /\ trace' = [trace EXCEPT ![r] = Append(@, "received")]
            /\ UNCHANGED <<response, finished>>
       ELSE /\ pc' = [pc EXCEPT ![r] = "rejected"]
            /\ response' = [response EXCEPT ![r] = RequestValidationError]
            /\ finished' = Append(finished, r)
            /\ UNCHANGED <<running, trace>>
    /\ UNCHANGED <<globals, body, user_message, generated_text, prompts>>

\* user_message = request.message.strip(); if not user_message: raise 400
Validate(r) ==
    /\ pc[r] = "received"
    /\ running = r
    /\ LET stripped == Strip(body[r].message)
       IN  /\ user_message' = [user_message EXCEPT ![r] = stripped]
           /\ IF Falsy(stripped)
              THEN /\ pc' = [pc EXCEPT ![r] = "error"]
                   /\ response' = [response EXCEPT ![r] = HTTPException(400, EmptyMessageDetail)]
                   /\ trace' = [trace EXCEPT ![r] = Append(@, "error")]
                   /\ running' = 0
                   /\ finished' = Append(finished, r)
              ELSE /\ pc' = [pc EXCEPT ![r] = "validated"]
                   /\ trace' = [trace EXCEPT ![r] = Append(@, "validated")]
                   /\ UNCHANGED <<response, running, finished>>
    /\ UNCHANGED <<globals, body, generated_text, prompts>>

\* generated_text = lite_llm_instance.generate(user_message), returning normally.
\* The call is synchronous: the handler keeps the event loop throughout.
GenerateReturn(r) ==
    /\ pc[r] = "validated"
    /\ running = r
    /\ LET out == Generate(lite_llm_instance, Prompt(r))
       IN  /\ out.ok
           /\ generated_text' = [generated_text EXCEPT ![r] = out.text]
    /\ prompts' = [prompts EXCEPT ![r] = Append(@, Prompt(r))]
    /\ pc' = [pc EXCEPT ![r] = "generated"]
    /\ trace' = [trace EXCEPT ![r] = Append(@, "generated")]
    /\ UNCHANGED <<globals, body, user_message, response, running, finished>>

\* variants of the raising call: one that calls the backend again after a
\* failure, one that re-creates the adapter after a failure, and one that
\* leaves the event loop held after the error answer
GenerateRaise_retry(r) ==
    /\ pc[r] = "validated"
    /\ running = r
    /\ ~Generate(lite_llm_instance, Prompt(r)).ok
    /\ Len(prompts[r]) < 2
    /\ prompts' = [prompts EXCEPT ![r] = Append(@, Prompt(r))]
    /\ UNCHANGED <<globals, body, pc, user_message, generated_text, response, running, trace,
                   finished>>

GenerateRaise_reinit(r) ==
    /\ pc[r] = "validated"
    /\ running = r
    /\ LET out == Generate(lite_llm_instance, Prompt(r))
       IN  /\ ~out.ok
           /\ response' = [response EXCEPT ![r] =
                             HTTPException(500, GenerationErrorDetail(out))]
    /\ lite_llm_instance' = "mock"
    /\ prompts' = [prompts EXCEPT ![r] = Append(@, Prompt(r))]
    /\ pc' = [pc EXCEPT ![r] = "error"]
    /\ trace' = [trace EXCEPT ![r] = Append(@, "error")]
    /\ running' = 0
    /\ finished' = Append(finished, r)
    /\ UNCHANGED <<lite_llm, body, user_message, generated_text>>

GenerateRaise_fatal(r) ==
    /\ pc[r] = "validated"
    /\ running = r
    /\ LET out == Generate(lite_llm_instance, Prompt(r))
       IN  /\ ~out.ok
           /\ response' = [response EXCEPT ![r] =
                             HTTPException(500, GenerationErrorDetail(out))]
    /\ prompts' = [prompts EXCEPT ![r] = Append(@, Prompt(r))]
    /\ pc' = [pc EXCEPT ![r] = "error"]
    /\ trace' = [trace EXCEPT ![r] = Append(@, "error")]
    /\ finished' = Append(finished, r)
    /\ UNCHANGED <<globals, body, user_message, generated_text, running>>

\* the same call raising: except Exception as e: raise HTTPException(500, ...)
GenerateRaise(r) ==
    /\ pc[r] = "validated"
    /\ running = r
    /\ LET out == Generate(lite_llm_instance, Prompt(r))
       IN  /\ ~out.ok
           /\ response' = [response EXCEPT ![r] =
                             IF Caught(out)
                             THEN HTTPException(500, GenerationErrorDetail(out))
                             ELSE Uncaught(out)]
    /\ prompts' = [prompts EXCEPT ![r] = Append(@, Prompt(r))]
    /\ pc' = [pc EXCEPT ![r] = "error"]
    /\ trace' = [trace EXCEPT ![r] = Append(@, "error")]
    /\ running' = 0
    /\ finished' = Append(finished, r)
    /\ UNCHANGED <<globals, body, user_message, generated_text>>

\* return MessageResponse(response=generated_text)
Respond(r) ==
    /\ pc[r] = "generated"
    /\ running = r
    /\ response' = [response EXCEPT ![r] = MessageResponse(generated_text[r])]
    /\ pc' = [pc EXCEPT ![r] = "responded"]
    /\ trace' = [trace EXCEPT ![r] = Append(@, "responded")]
    /\ running' = 0
    /\ finished' = Append(finished, r)
    /\ UNCHANGED <<globals, body, user_message, generated_text, prompts>>

Next ==
    \/ \E r \in Requests, b \in Bodies : Send(r, b)
    \/ \E r \in Requests : Dispatch(r)
    \/ \E r \in Requests : Validate(r)
    \/ \E r \in Requests : GenerateReturn(r)
    \/ \E r \in Requests : GenerateRaise(r)
    \/ \E r \in Requests : Respond(r)

Spec == Init /\ [][Next]_vars

\* =============================================================== properties
Terminal(r) == pc[r] \in {"rejected", "error", "responded"}
InHandler(r) == pc[r] \in {"received", "validated", "generated"}

HasText(r) == body[r].has_message /\ Strip(body[r].message) # <<>>

\* s is t with whitespace only added in front and behind
Surrounds(s, t) ==
    \E i \in 0..Len(s) :
        /\ i + Len(t) <= Len(s)
        /\ SubSeq(s, i + 1, i + Len(t)) = t
        /\ \A k \in 1..Len(s) : (k <= i \/ k > i + Len(t)) => IsSpace(s[k])

\* the answer the wire contract prescribes for a body under a backend
Contract(b, backend) ==
    IF ~b.has_message THEN [status |-> 422, field |-> "detail", text |-> <<"Field required">>]
    ELSE IF Strip(b.message) = <<>>
    THEN [status |-> 400, field |-> "detail",
          text |-> <<"The 'message' field cannot be empty.">>]
    ELSE LET out == Generate(backend, Strip(b.message))
         IN  IF out.ok
             THEN [status |-> 200, field |-> "response", text |-> out.text]
             ELSE [status |-> 500, field |-> "detail",
                   text |-> <<"Error generating response: ">> \o out.text]

\* C1 (as claimed): a request with a non-blank message for which the backend
\* returned normally is answered 200 with `response` equal to the backend's
\* output for the message exactly as submitted, surrounding whitespace included.
C1_ResponseForExactMessage ==
    \A r \in Requests :
        (HasText(r) /\ pc[r] = "responded") =>
            response[r] = [status |-> 200, field |-> "response",
                           text |-> Generate(lite_llm_instance, body[r].message).text]

\* C1 (amended): a request with a non-blank message whose backend call returns
\* normally is answered 200 with `response` equal to the backend's output for
\* the message with its surrounding whitespace removed.
C1_ResponseForStrippedMessage ==
    \A r \in Requests :
        (HasText(r) /\ Terminal(r)
            /\ Generate(lite_llm_instance, Strip(body[r].message)).ok) =>
            response[r] = [status |-> 200, field |-> "response",
                           text |-> Generate(lite_llm_instance, Strip(body[r].message)).text]

C1_Witness ==
    \E r \in Requests :
        /\ pc[r] = "responded"
        /\ response[r].status = 200
        /\ Strip(body[r].message) # body[r].message

\* C2: a request whose message is empty after trimming (empty or
\* whitespace-only) is answered 400 with the fixed detail under every backend,
\* and the backend is never called for it.
C2_BlankMessageIs400 ==
    \A r \in Requests :
        (body[r].has_message /\ Strip(body[r].message) = <<>>) =>
            /\ prompts[r] = <<>>
            /\ Terminal(r) =>
                 response[r] = [status |-> 400, field |-> "detail",
                                text |-> <<"The 'message' field cannot be empty.">>]

C2_Witness ==
    \E r \in Requests :
        /\ Terminal(r)
        /\ body[r].has_message
        /\ Len(body[r].message) > 0
        /\ \A k \in 1..Len(body[r].message) : IsSpace(body[r].message[k])
        /\ response[r].status = 400
        /\ lite_llm_instance = "module"

\* C3: when the backend raises on the call made for a request, the request is
\* answered 500 with detail "Error generating response: " followed by the
\* error's text, whatever the class of the error (an HTTPException of the
\* backend's own included): never 200, 400 or another detail.
C3_BackendErrorIs500 ==
    \A r \in Requests :
        (prompts[r] # <<>> /\ ~Generate(lite_llm_instance, prompts[r][1]).ok) =>
            /\ Terminal(r)
            /\ response[r] =
                 [status |-> 500, field |-> "detail",
                  text |-> <<"Error generating response: ">>
                              \o Generate(lite_llm_instance, prompts[r][1]).text]

C3_Witness ==
    \E r \in Requests :
        /\ prompts[r] # <<>>
        /\ Generate(lite_llm_instance, prompts[r][1]).cls = "HTTPException"
        /\ response[r].status = 500

\* C4: a request whose body has no `message` field is answered 422 without
\* the handler body running: no stage of the handler is entered, the backend
\* is never called, and the answer is never 200, 400 or 500.
C4_MissingFieldIs422 ==
    \A r \in Requests :
        (pc[r] # "none" /\ ~body[r].has_message) =>
            /\ trace[r] = <<>>
            /\ prompts[r] = <<>>
            /\ running # r
            /\ pc[r] \in {"pending", "rejected"}
            /\ pc[r] = "rejected" => response[r].status = 422

C4_Witness ==
    \E r \in Requests : pc[r] = "rejected" /\ ~body[r].has_message /\ response[r].status = 422

Path200 == <<"received", "validated", "generated", "responded">>
Path400 == <<"received", "error">>
Path500 == <<"received", "validated", "error">>
IsPrefix(s, t) == Len(s) <= Len(t) /\ SubSeq(t, 1, Len(s)) = s

C6_SinglePath ==
    \A r \in Requests :
        /\ \E path \in {Path200, Path400, Path500} : IsPrefix(trace[r], path)
        /\ Len(prompts[r]) <= 1
        /\ prompts[r] # <<>> => (Len(trace[r]) >= 3 /\ trace[r][2] = "validated")
        /\ (Len(trace[r]) >= 3) => Len(prompts[r]) = 1
        /\ trace[r] # <<>> => pc[r] = trace[r][Len(trace[r])]
        /\ (Terminal(r) /\ body[r].has_message) =>
             \/ trace[r] = Path200 /\ response[r].status = 200
             \/ trace[r] = Path400 /\ response[r].status = 400
             \/ trace[r] = Path500 /\ response[r].status = 500
        /\ ~Terminal(r) => response[r] = NoResponse

C6_Witness ==
    \E r, q \in Requests :
        /\ trace[r] = Path500 /\ Len(prompts[r]) = 1
        /\ trace[q] = Path200

\* C7 (as claimed): each answer is the one the contract prescribes for the
\* request's own body and the backend, and no request waits on another: a
\* request that has arrived can be taken up whatever the others are doing.
C7_IndependentAndNoWaiting ==
    \A r \in Requests :
        /\ Terminal(r) => response[r] = Contract(body[r], lite_llm_instance)
        /\ pc[r] = "pending" => ENABLED Dispatch(r)

\* C8: no step of request handling changes the adapter instance or the
\* module-level name it was created from.
C8_AdapterNeverReassigned ==
    [][lite_llm_instance' = lite_llm_instance /\ lite_llm' = lite_llm]_vars

C8_Witness ==
    /\ Len(finished) >= 2
    /\ \E r \in Requests : response[r].status = 500
    /\ lite_llm_instance = initialize_lite_llm(lite_llm)

\* C9: whatever the earlier requests ended in, the event loop is held only by
\* a request inside the handler, a request that has arrived is taken up as
\* soon as no handler is running, and every answer is the one the contract
\* prescribes for that request's own body and backend result.
C9_ServiceSurvives ==
    /\ running # 0 => InHandler(running)
    /\ \A r \in Requests :
        /\ (pc[r] = "pending" /\ \A q \in Requests : ~InHandler(q)) => ENABLED Dispatch(r)
        /\ Terminal(r) => response[r] = Contract(body[r], lite_llm_instance)

C9_Witness ==
    /\ Len(finished) >= 2
    /\ response[finished[1]].status \in {400, 500}
    /\ response[finished[Len(finished)]].status = 200

\* C10: every prompt passed to generate is non-empty, neither starts nor ends
\* with whitespace, and is the submitted message with only surrounding
\* whitespace removed.
C10_PromptIsTrimmedMessage ==
    \A r \in Requests :
        \A i \in 1..Len(prompts[r]) :
            LET p == prompts[r][i]
            IN  /\ p # <<>>
                /\ ~IsSpace(p[1])
                /\ ~IsSpace(p[Len(p)])
                /\ Surrounds(body[r].message, p)

C10_Witness ==
    \E r \in Requests :
        /\ prompts[r] # <<>>
        /\ prompts[r][1] # body[r].message
        /\ IsSpace(body[r].message[Len(body[r].message)])

====
